---- MODULE Spec2Model ----
(***************************************************************************)
(* The CDP protocol client of tiny-browser (createClient in src/src/page.ts) *)
(* as a state machine: the WebSocket's lifecycle, sendCommand's id          *)
(* allocation and pending table, the onmessage routing of incoming frames   *)
(* to pending commands or event listeners, on() and close().                *)
(***************************************************************************)
EXTENDS Integers, Sequences, FiniteSets, TLC

\* ---------------------------------------------------------------- bounds
\* Number of sendCommand invocations explored on one client.
MaxCalls == 2

\* ------------------------------------------------------- WebSocket states
CONNECTING == 0
OPEN == 1
CLOSING == 2
CLOSED == 3

\* ------------------------------------------------------------ JSON values
\* A field the JSON object does not have (reads as undefined).
Absent == "absent"
\* The JSON value null.
Null == "null"
\* data.id of a frame that has no id field.
NoId == -1

\* JavaScript truthiness of a frame's id (a number or undefined).
TruthyId(i) == i # NoId /\ i # 0
\* JavaScript truthiness of a string, object, null or undefined field.
Truthy(v) == v \notin {Absent, Null, ""}

\* ---------------------------------------------------------------- inputs
\* Methods a caller passes to sendCommand.
CommandMethods == {"Page.navigate"}
\* sessionId arguments of sendCommand (Absent would be: not provided). The
\* argument only shapes the outgoing frame, so one value is explored here.
SessionIds == {"session-123"}
\* Event methods listeners are registered for.
EventMethods == {"Page.loadEventFired", "Network.requestWillBeSent"}
\* Callback references handed to on(): two for the first method, one for the other.
Callbacks == {"cbA", "cbB", "cbC"}
Registrations ==
    {<<"Page.loadEventFired", "cbA">>, <<"Page.loadEventFired", "cbB">>,
     <<"Network.requestWillBeSent", "cbC">>}

\* Incoming text frames. A frame that parses to a JSON object is the record of
\* its fields; Absent marks a field the object does not have.
Frame(id, method, params, result, error) ==
    [kind |-> "object", id |-> id, method |-> method, params |-> params,
     result |-> result, error |-> error]
BlankFrame(k) ==
    [kind |-> k, id |-> NoId, method |-> Absent, params |-> Absent,
     result |-> Absent, error |-> Absent]

\* result and error fields of the frames that carry an id: a result only, a
\* result with error: null, a result with an error object, an error object only.
ResponseBodies ==
    {<<"R1", Absent>>, <<"R1", Null>>, <<"R1", "E1">>, <<Absent, "E1">>}
\* method and params fields of the frames that carry an id: none, or an event's.
ResponseMethods == {<<Absent, Absent>>, <<"Page.loadEventFired", "P1">>}
FrameParams == {"P1", "P2"}

Frames ==
    \* frames with the id of a command the client may have sent
    {Frame(i, mp[1], mp[2], b[1], b[2]) :
        i \in 1..MaxCalls, mp \in ResponseMethods, b \in ResponseBodies}
    \* a frame whose id is 0
    \cup {Frame(0, Absent, Absent, "R1", Absent)}
    \* event frames without an id
    \cup {Frame(NoId, m, p, Absent, Absent) : m \in EventMethods, p \in FrameParams}
    \* a JSON object with none of the fields, the JSON text null, and text
    \* that is not JSON
    \cup {BlankFrame("object"), BlankFrame("null"), BlankFrame("garbage")}

\* The error sendCommand rejects with when the socket is not open.
NotOpenError == "WebSocket is not open"

\* ----------------------------------------------------------------- state
VARIABLES
    readyState,         \* ws.readyState
    connectionPromise,  \* "pending" | "resolved" | "rejected"
    createClientPc,     \* "idle" | "await" | "returned" | "rejected"
    messageId,          \* let messageId
    pendingCommands,    \* Map id -> resolvers (index of the promise in promises)
    eventListeners,     \* Map method -> Set of callbacks, in insertion order
    promises,           \* the promise of every sendCommand call, in call order
    sentMessages,       \* frames handed to ws.send, in order
    closeCallCount,     \* number of ws.close() calls
    event,              \* the message event last delivered to ws.onmessage
    delivered,          \* listener invocations made for that event: <<callback, params>>
    threw               \* whether the handler of that event threw

\* The browser helpers: launch() and close(browser).
VARIABLES
    os,                 \* Deno.build.os
    passing,            \* the paths whose --version run exits with code 0
    launchPc,           \* "idle" | "find" | "spawn" | "retrieve" | "connect" | "returned" | "failed"
    checked,            \* the paths given to checkPath, in order
    chromePath,         \* const chromePath
    spawnCalls,         \* number of command.spawn() calls
    fetchCalls,         \* number of fetch() calls of retrieveWebSocketUrl
    launchError,        \* the error launch() failed with
    processStatus,      \* "none" | "running" | "exited": browser.process.status resolves on exit
    closePc,            \* "idle" | "awaitStatus" | "returned" | "rejected"
    closeLog,           \* the calls close(browser) made on its collaborators, in order
    killResult,         \* what process.kill("SIGINT") did: "ok" or the error it threw
    closeError          \* the error close(browser) failed with

\* The page helper goto(page, url, options), one call per page.
VARIABLES
    gotoPc,             \* "idle" | "awaitCommand" | "awaitNavigation" | "resolved" | "rejected"
    gotoTimeout,        \* const timeout of the call, -1 before the call
    timer,              \* "none" | "armed" | "fired" | "cleared": the setTimeout of the call
    navigationPromise,  \* "pending" | "resolved" | "rejected"
    gotoCommand,        \* index in promises of the call's Page.navigate command
    gotoError,          \* the error the call failed with
    unhandled           \* navigationPromise was rejected with no handler attached

\* The page helper newPage(browser), called once.
VARIABLES
    newPagePc,          \* "idle" | "createTarget" | "attachToTarget" | "enable" | "returned" | "rejected"
    newPageCommand,     \* index in promises of the command the call awaits
    targetId,           \* const { targetId }
    pageSessionId,      \* const { sessionId }
    newPageError        \* the error the call failed with

clientVars == <<readyState, connectionPromise, createClientPc, messageId,
                pendingCommands, eventListeners, promises, sentMessages,
                closeCallCount, event, delivered, threw>>

browserVars == <<os, passing, launchPc, checked, chromePath, spawnCalls,
                 fetchCalls, launchError, processStatus, closePc, closeLog,
                 killResult, closeError>>

gotoVars == <<gotoPc, gotoTimeout, timer, navigationPromise, gotoCommand,
              gotoError, unhandled>>

newPageVars == <<newPagePc, newPageCommand, targetId, pageSessionId,
                 newPageError>>

vars == <<clientVars, browserVars, gotoVars, newPageVars>>

\* ------------------------------------------------------------- helpers
Range(s) == {s[i] : i \in 1..Len(s)}

\* Mutant of SettleConnection: the last resolve or reject wins.
SettleConnectionOverwrites(p, outcome) == outcome

\* A promise settles once: resolve/reject of a settled promise is a no-op.
SettleConnection(p, outcome) == IF p = "pending" THEN outcome ELSE p

SettlePromise(p, st, v) ==
    IF p.state = "pending" THEN [p EXCEPT !.state = st, !.value = v] ELSE p

\* Mutant of AllocId: post-increment, the command gets the counter's old value.
AllocIdPostIncrement(m) == [id |-> m, messageId |-> m + 1]

\* const id = ++messageId: the id of the new command and the counter after it.
AllocId(m) == [id |-> m + 1, messageId |-> m + 1]

\* Mutant of NotOpen: only a closed socket counts as not open.
NotOpenOnlyClosed(rs) == rs = CLOSED

\* ws.readyState !== WebSocket.OPEN
NotOpen(rs) == rs # OPEN

\* Mutant of Message: the field is always written, null when no session is given.
MessageNullSession(id, method, params, sessionId) ==
    [id |-> id, method |-> method, params |-> params,
     sessionId |-> IF Truthy(sessionId) THEN sessionId ELSE Null]

\* sessionId ? { id, method, params, sessionId } : { id, method, params }
Message(id, method, params, sessionId) ==
    [id |-> id, method |-> method, params |-> params,
     sessionId |-> IF Truthy(sessionId) THEN sessionId ELSE Absent]

\* Mutant of MapSet: the entry is not stored.
MapSetSkips(m, k, v) == m

\* Mutant of MapDelete: the entry is left in the table.
MapDeleteKeeps(m, k) == m

\* Mutant of MapDelete: the whole table is emptied.
MapDeleteAll(m, k) == <<>>

\* Map.prototype.set / delete on pendingCommands.
MapSet(m, k, v) == [i \in DOMAIN m \cup {k} |-> IF i = k THEN v ELSE m[i]]
MapDelete(m, k) == [i \in DOMAIN m \ {k} |-> m[i]]

\* Mutant of SetAdd: list semantics, the callback is appended again.
SetAddList(s, cb) == Append(s, cb)

\* Set.prototype.add: insertion order, no duplicates.
SetAdd(s, cb) == IF cb \in Range(s) THEN s ELSE Append(s, cb)

\* JSON.parse(event.data) succeeds and yields an object whose fields can be read.
Parses(text) == text.kind = "object"

\* data.id && pendingCommands.has(data.id)
HasPendingCommand(data, pending) ==
    TruthyId(data.id) /\ data.id \in DOMAIN pending

\* Mutant of Resolvers: the oldest pending command is taken, as from a queue.
ResolversOldest(pending, id) ==
    pending[CHOOSE k \in DOMAIN pending : \A j \in DOMAIN pending : k <= j]

\* const { resolve, reject } = pendingCommands.get(data.id)
Resolvers(pending, id) == pending[id]

\* Mutant of Outcome: the result field is looked at first.
OutcomeResultFirst(data) ==
    IF Truthy(data.result)
    THEN [state |-> "resolved", value |-> data.result]
    ELSE [state |-> "rejected", value |-> data.error]

\* if (data.error) reject(data.error) else resolve(data.result)
Outcome(data) ==
    IF Truthy(data.error)
    THEN [state |-> "rejected", value |-> data.error]
    ELSE [state |-> "resolved", value |-> data.result]

\* Mutant of Dispatch: the listeners are invoked last registered first.
DispatchReversed(data, listeners) ==
    IF Truthy(data.method) /\ data.method \in DOMAIN listeners
    THEN [i \in 1..Len(listeners[data.method]) |->
             <<listeners[data.method][Len(listeners[data.method]) + 1 - i],
               data.params>>]
    ELSE <<>>

\* if (data.method) listeners?.forEach((callback) => callback(data.params))
Dispatch(data, listeners) ==
    IF Truthy(data.method) /\ data.method \in DOMAIN listeners
    THEN [i \in 1..Len(listeners[data.method]) |->
             <<listeners[data.method][i], data.params>>]
    ELSE <<>>

\* Mutant of Routed: the handler does not return after settling a command.
RoutedNoReturn(consumed, data, listeners) == Dispatch(data, listeners)

\* Mutant of Routed: every frame with an id is taken for a response.
RoutedIdIsResponse(consumed, data, listeners) ==
    IF consumed \/ TruthyId(data.id) THEN <<>> ELSE Dispatch(data, listeners)

\* The listener invocations of one frame: none when a pending command consumed
\* it (the handler returns before the event branch), else the event branch's.
Routed(consumed, data, listeners) ==
    IF consumed THEN <<>> ELSE Dispatch(data, listeners)

\* Mutant of ResumeOutcome: the client is returned without awaiting the open.
ResumeNoAwait(p) == IF p = "rejected" THEN "rejected" ELSE "returned"

\* await connectionPromise; return client: where createClient is once the
\* continuation has run.
ResumeOutcome(p) ==
    IF p = "resolved" THEN "returned"
    ELSE IF p = "rejected" THEN "rejected"
    ELSE "await"

\* ------------------------------------------------------------------ Init
\* The pages goto is called on.
Pages == {"pageA", "pageB"}

\* No launch() or close(browser) call has been made.
BrowserIdle ==
    /\ launchPc = "idle"
    /\ checked = <<>>
    /\ chromePath = Absent
    /\ spawnCalls = 0
    /\ fetchCalls = 0
    /\ launchError = Absent
    /\ processStatus = "none"
    /\ closePc = "idle"
    /\ closeLog = <<>>
    /\ killResult = Absent
    /\ closeError = Absent

\* No goto call has been made.
GotoIdle ==
    /\ gotoPc = [p \in Pages |-> "idle"]
    /\ gotoTimeout = [p \in Pages |-> -1]
    /\ timer = [p \in Pages |-> "none"]
    /\ navigationPromise = [p \in Pages |-> "pending"]
    /\ gotoCommand = [p \in Pages |-> 0]
    /\ gotoError = [p \in Pages |-> Absent]
    /\ unhandled = [p \in Pages |-> FALSE]

\* No newPage call has been made.
NewPageIdle ==
    /\ newPagePc = "idle"
    /\ newPageCommand = 0
    /\ targetId = Absent
    /\ pageSessionId = Absent
    /\ newPageError = Absent

\* createClient(url) up to its await: the socket is constructed, the handlers
\* are installed, nothing was sent or registered.
ClientInit ==
    /\ readyState = CONNECTING
    /\ connectionPromise = "pending"
    /\ messageId = 0
    /\ pendingCommands = <<>>
    /\ eventListeners = [m \in EventMethods |-> <<>>]
    /\ promises = <<>>
    /\ sentMessages = <<>>
    /\ closeCallCount = 0
    /\ event = BlankFrame("none")
    /\ delivered = <<>>
    /\ threw = FALSE

\* createClient(url) called on its own, as by the client's tests.
Init ==
    /\ ClientInit
    /\ createClientPc = "await"
    /\ os = "linux"
    /\ passing = {}
    /\ BrowserIdle
    /\ GotoIdle
    /\ NewPageIdle

\* ----------------------------------------------------- socket lifecycle
\* The socket reaches the open state and fires onopen.
WsOpen ==
    /\ readyState = CONNECTING
    /\ readyState' = OPEN
    /\ connectionPromise' = SettleConnection(connectionPromise, "resolved")
    /\ UNCHANGED <<createClientPc, messageId, pendingCommands, eventListeners,
                   promises, sentMessages, closeCallCount, event, delivered, threw>>

\* Mutant of WsClose: onclose also rejects every pending command.
WsCloseRejectsPending ==
    /\ readyState # CLOSED
    /\ readyState' = CLOSED
    /\ connectionPromise' = SettleConnection(connectionPromise, "rejected")
    /\ promises' = [c \in 1..Len(promises) |->
                       SettlePromise(promises[c], "rejected", "closed")]
    /\ pendingCommands' = <<>>
    /\ UNCHANGED <<createClientPc, messageId, eventListeners, sentMessages,
                   closeCallCount, event, delivered, threw>>

\* Mutant of WsClose: onclose does not reject the connection promise.
WsCloseNoReject ==
    /\ readyState # CLOSED
    /\ readyState' = CLOSED
    /\ UNCHANGED <<connectionPromise, createClientPc, messageId, pendingCommands,
                   eventListeners, promises, sentMessages, closeCallCount, event,
                   delivered, threw>>

\* The socket closes (refused, failed, closed by the peer, or the close
\* requested by ws.close() completes) and fires onclose.
WsClose ==
    /\ readyState # CLOSED
    /\ readyState' = CLOSED
    /\ connectionPromise' = SettleConnection(connectionPromise, "rejected")
    /\ UNCHANGED <<createClientPc, messageId, pendingCommands, eventListeners,
                   promises, sentMessages, closeCallCount, event, delivered, threw>>

\* await connectionPromise; return client
CreateClientResume ==
    /\ createClientPc = "await"
    /\ ResumeOutcome(connectionPromise) # "await"
    /\ createClientPc' = ResumeOutcome(connectionPromise)
    /\ UNCHANGED <<readyState, connectionPromise, messageId, pendingCommands,
                   eventListeners, promises, sentMessages, closeCallCount,
                   event, delivered, threw>>

\* ------------------------------------------------------------ client API
SendCommand(method, params, sessionId) ==
    /\ createClientPc = "returned"
    /\ Len(promises) < MaxCalls
    /\ IF NotOpen(readyState)
       THEN /\ promises' = Append(promises,
                   [id |-> 0, state |-> "rejected", value |-> NotOpenError])
            /\ UNCHANGED <<messageId, pendingCommands, sentMessages>>
       ELSE LET id == AllocId(messageId).id IN
            /\ messageId' = AllocId(messageId).messageId
            /\ promises' = Append(promises,
                   [id |-> id, state |-> "pending", value |-> Absent])
            /\ pendingCommands' = MapSet(pendingCommands, id, Len(promises) + 1)
            /\ sentMessages' =
                   Append(sentMessages, Message(id, method, params, sessionId))
    /\ UNCHANGED <<readyState, connectionPromise, createClientPc, eventListeners,
                   closeCallCount, event, delivered, threw>>

On(ev, callback) ==
    /\ createClientPc = "returned"
    /\ eventListeners' =
           [eventListeners EXCEPT ![ev] = SetAdd(eventListeners[ev], callback)]
    /\ UNCHANGED <<readyState, connectionPromise, createClientPc, messageId,
                   pendingCommands, promises, sentMessages, closeCallCount,
                   event, delivered, threw>>

\* Mutant of Close: close() also fails every pending command.
CloseRejectsPending ==
    /\ createClientPc = "returned"
    /\ IF NotOpen(readyState)
       THEN UNCHANGED <<readyState, closeCallCount, promises, pendingCommands>>
       ELSE /\ readyState' = CLOSING
            /\ closeCallCount' = closeCallCount + 1
            /\ promises' = [c \in 1..Len(promises) |->
                               SettlePromise(promises[c], "rejected", "closed")]
            /\ pendingCommands' = <<>>
    /\ UNCHANGED <<connectionPromise, createClientPc, messageId,
                   eventListeners, sentMessages, event, delivered, threw>>

\* Mutant of Close: ws.close() is called whatever the socket's state.
CloseUnguarded ==
    /\ createClientPc = "returned"
    /\ readyState' = IF readyState = CLOSED THEN CLOSED ELSE CLOSING
    /\ closeCallCount' = closeCallCount + 1
    /\ UNCHANGED <<connectionPromise, createClientPc, messageId, pendingCommands,
                   eventListeners, promises, sentMessages, event, delivered, threw>>

Close ==
    /\ createClientPc = "returned"
    /\ IF NotOpen(readyState)
       THEN UNCHANGED <<readyState, closeCallCount>>
       ELSE /\ readyState' = CLOSING
            /\ closeCallCount' = closeCallCount + 1
    /\ UNCHANGED <<connectionPromise, createClientPc, messageId, pendingCommands,
                   eventListeners, promises, sentMessages, event, delivered, threw>>

\* ------------------------------------------------------------ ws.onmessage
OnMessage(text) ==
    /\ readyState \in {OPEN, CLOSING}
    /\ event' = text
    /\ IF ~Parses(text)
       THEN /\ threw' = TRUE
            /\ delivered' = <<>>
            /\ UNCHANGED <<promises, pendingCommands>>
       ELSE /\ threw' = FALSE
            /\ IF HasPendingCommand(text, pendingCommands)
               THEN LET r == Resolvers(pendingCommands, text.id)
                        o == Outcome(text)
                    IN  /\ pendingCommands' = MapDelete(pendingCommands, text.id)
                        /\ promises' = [promises EXCEPT
                               ![r] = SettlePromise(@, o.state, o.value)]
                        /\ delivered' = Routed(TRUE, text, eventListeners)
               ELSE /\ delivered' = Routed(FALSE, text, eventListeners)
                    /\ UNCHANGED <<promises, pendingCommands>>
    /\ UNCHANGED <<readyState, connectionPromise, createClientPc, messageId,
                   eventListeners, sentMessages, closeCallCount>>

\* ------------------------------------------------------------------ Spec
\* The client on its own: the helpers' state stays as it is.
Idle == UNCHANGED <<browserVars, gotoVars, newPageVars>>

Next ==
    \/ WsOpen /\ Idle
    \/ WsClose /\ Idle
    \/ CreateClientResume /\ Idle
    \/ \E m \in CommandMethods, s \in SessionIds :
          SendCommand(m, "params", s) /\ Idle
    \/ \E r \in Registrations : On(r[1], r[2]) /\ Idle
    \/ Close /\ Idle
    \/ \E f \in Frames : OnMessage(f) /\ Idle

Spec == Init /\ [][Next]_vars

\* The event loop runs the continuation of an await once its promise has
\* settled.
FairSpec == Spec /\ WF_vars(CreateClientResume /\ Idle)

\* ---------------------------------------------------------------- claims
\* The promise of the command that was sent with id k (0 if there is none).
PromiseOf(k) ==
    IF k > 0 /\ \E c \in 1..Len(promises) : promises[c].id = k
    THEN CHOOSE c \in 1..Len(promises) : promises[c].id = k
    ELSE 0

\* This step is ws.onmessage handling the frame event'.
Handled == event' \in Frames /\ OnMessage(event')

\* Promises of commands that were sent (an id was allocated).
Sent == {c \in 1..Len(promises) : promises[c].id # 0}

\* C1: whenever an outstanding command completes or fails, it does so in the
\* handling of a frame that carries the command's own id, and its value is
\* that frame's result (when it completes) or error (when it fails).
C1_OwnFrameOnly ==
    [][\A c \in 1..Len(promises) :
          (promises[c].state = "pending" /\ promises'[c].state # "pending")
          => /\ event'.id = promises[c].id
             /\ \/ promises'[c].state = "resolved"
                   /\ promises'[c].value = event'.result
                \/ promises'[c].state = "rejected"
                   /\ promises'[c].value = event'.error]_vars

\* C1 witness: two commands were outstanding together and the one sent last
\* was answered first.
C1_Witness ==
    /\ Len(promises) = 2
    /\ promises[1].id = 1 /\ promises[1].state = "pending"
    /\ promises[2].id = 2 /\ promises[2].state = "resolved"
    /\ event.id = 2 /\ promises[2].value = event.result

\* C2: the frame that matches a pending id removes that entry; a settled
\* command never changes again; and a later frame with the id of an answered
\* command changes no promise and no pending entry and is routed as an event
\* (one invocation per listener of its method) or dropped (no invocation).
C2_ResolvesAtMostOnce ==
    [][Handled => LET f == event' IN
          /\ f.id \in DOMAIN pendingCommands => f.id \notin DOMAIN pendingCommands'
          /\ \A c \in 1..Len(promises) :
                promises[c].state # "pending" => promises'[c] = promises[c]
          /\ (PromiseOf(f.id) # 0 /\ promises[PromiseOf(f.id)].state # "pending")
             => /\ promises' = promises
                /\ pendingCommands' = pendingCommands
                /\ IF f.method = Absent
                   THEN delivered' = <<>>
                   ELSE Len(delivered') = Len(eventListeners[f.method])]_vars

\* C2 witness: a frame with the id of an already answered command and a
\* method field was delivered to that method's listeners.
C2_Witness ==
    \E c \in Sent :
        /\ promises[c].state # "pending"
        /\ event.id = promises[c].id
        /\ event.method # Absent
        /\ delivered # <<>>

\* C3: a sent command leaves the pending state only in the handling of a frame
\* with its id, always does so when such a frame is handled, and its outcome
\* never changes afterwards; no other step settles it.
C3_OutcomeIffResponse ==
    [][\A c \in Sent :
          /\ promises[c].state # "pending" => promises'[c] = promises[c]
          /\ promises'[c] # promises[c]
             => Handled /\ event'.id = promises[c].id
          /\ (Handled /\ event'.id = promises[c].id /\ promises[c].state = "pending")
             => promises'[c].state \in {"resolved", "rejected"}]_vars

\* C3 witness: one sent command was answered and another, never answered, is
\* still pending after the socket has closed.
C3_Witness ==
    /\ readyState = CLOSED
    /\ \E c \in Sent : promises[c].state # "pending" /\ event.id = promises[c].id
    /\ \E c \in Sent : promises[c].state = "pending"

\* C4: the ids of the frames handed to the socket are 1, 2, 3, ... in order:
\* positive, starting at 1, each the previous plus one, none repeated.
C4_IdsIncreaseFromOne ==
    /\ \A i \in 1..Len(sentMessages) : sentMessages[i].id > 0
    /\ Len(sentMessages) > 0 => sentMessages[1].id = 1
    /\ \A i \in 2..Len(sentMessages) :
          sentMessages[i].id = sentMessages[i - 1].id + 1
    /\ \A i, j \in 1..Len(sentMessages) :
          i # j => sentMessages[i].id # sentMessages[j].id

\* C4 witness: at least two commands were sent.
C4_Witness == Len(sentMessages) >= 2 /\ sentMessages[2].id = 2

\* C5: a sendCommand call made while the socket is not open returns a promise
\* already rejected with the not-open error and leaves the sent frames, the id
\* counter and the pending table as they were; no frame is sent in any step
\* taken while the socket is not open, and a socket that left Open never
\* returns to it.
C5_NotOpenRejects ==
    [][/\ (Len(promises') > Len(promises) /\ readyState # OPEN)
          => /\ promises'[Len(promises')].state = "rejected"
             /\ promises'[Len(promises')].value = NotOpenError
             /\ sentMessages' = sentMessages
             /\ messageId' = messageId
             /\ pendingCommands' = pendingCommands
       /\ readyState # OPEN => sentMessages' = sentMessages
       /\ readyState \in {CLOSING, CLOSED} => readyState' # OPEN]_vars

\* C5 witness: with a command still pending, a call made after the socket
\* left Open was rejected.
C5_Witness ==
    /\ readyState \in {CLOSING, CLOSED}
    /\ pendingCommands # <<>>
    /\ Len(promises) > Len(sentMessages)
    /\ promises[Len(promises)].value = NotOpenError

\* C6: a frame whose id matches a pending command settles that command and
\* invokes no listener, whatever method field it carries.
C6_ResponseNotAnEvent ==
    [][(Handled /\ event'.id \in DOMAIN pendingCommands)
          => /\ delivered' = <<>>
             /\ promises'[pendingCommands[event'.id]].state # "pending"]_vars

\* C6 witness: a frame with a method field that has listeners settled the
\* command with its id and reached no listener.
C6_Witness ==
    \E c \in Sent :
        /\ promises[c].state # "pending"
        /\ event.id = promises[c].id
        /\ event.method # Absent
        /\ eventListeners[event.method] # <<>>
        /\ delivered = <<>>

\* C7: a frame with a method field and an id that matches no pending command
\* invokes every listener registered for its method, once each in
\* registration order with the frame's params, and changes no promise and no
\* pending entry.
C7_UnmatchedIdIsEvent ==
    [][(Handled /\ event'.method # Absent /\ event'.id # NoId
           /\ event'.id \notin DOMAIN pendingCommands)
          => /\ Len(delivered') = Len(eventListeners[event'.method])
             /\ \A i \in 1..Len(delivered') :
                   delivered'[i] = <<eventListeners[event'.method][i], event'.params>>
             /\ promises' = promises
             /\ pendingCommands' = pendingCommands]_vars

\* C7 witness: while a command is pending, a frame with a method field and an
\* id was delivered to the two listeners of its method.
C7_Witness ==
    /\ event.method # Absent
    /\ event.id # NoId
    /\ Len(delivered) = 2
    /\ \E c \in Sent : promises[c].state = "pending"

\* C8: createClient has returned the client only if the socket has left
\* Connecting through the open signal; having returned it stays returned; and
\* once open is signaled the client is eventually returned.
C8_ReturnsAfterOpen ==
    /\ [](createClientPc = "returned"
            => readyState # CONNECTING /\ connectionPromise = "resolved")
    /\ [][createClientPc = "returned" => createClientPc' = "returned"]_vars
    /\ (connectionPromise = "resolved" ~> createClientPc = "returned")

\* C8 witness: the socket is open and the client has been returned.
C8_Witness == createClientPc = "returned" /\ readyState = OPEN

\* C9: a socket that closes while Connecting rejects the connection promise;
\* a rejected connection is never returned as a client, the failure is
\* permanent, and createClient eventually fails.
C9_CloseBeforeOpenFails ==
    /\ [][(readyState = CONNECTING /\ readyState' = CLOSED)
             => connectionPromise' = "rejected"]_vars
    /\ [](connectionPromise = "rejected" => createClientPc # "returned")
    /\ [][connectionPromise = "rejected" => connectionPromise' = "rejected"]_vars
    /\ [][createClientPc = "rejected" => createClientPc' = "rejected"]_vars
    /\ (connectionPromise = "rejected" ~> createClientPc = "rejected")

\* C9 witness: the socket closed without opening and createClient failed.
C9_Witness ==
    /\ readyState = CLOSED
    /\ connectionPromise = "rejected"
    /\ createClientPc = "rejected"

\* C10 as stated: a matching frame with an error field fails the command with
\* that field's value, and one without an error field completes it with the
\* result.
C10_ErrorFieldFails ==
    [][(Handled /\ event'.id \in DOMAIN pendingCommands)
          => LET c == pendingCommands[event'.id] IN
             IF event'.error # Absent
             THEN promises'[c].state = "rejected" /\ promises'[c].value = event'.error
             ELSE promises'[c].state = "resolved" /\ promises'[c].value = event'.result]_vars

\* C10 amended: a matching frame whose error field is an error object (not
\* null) fails the command with that object, whatever its result field; a
\* matching frame with no error field, or with error: null, completes the
\* command with the result.
C10_ErrorObjectFails ==
    [][(Handled /\ event'.id \in DOMAIN pendingCommands)
          => LET c == pendingCommands[event'.id] IN
             IF event'.error \notin {Absent, Null}
             THEN promises'[c].state = "rejected" /\ promises'[c].value = event'.error
             ELSE promises'[c].state = "resolved" /\ promises'[c].value = event'.result]_vars

\* C10 witness: a frame carrying both a result and an error object failed the
\* command with the error object.
C10_Witness ==
    \E c \in Sent :
        /\ event.id = promises[c].id
        /\ event.result = "R1" /\ event.error = "E1"
        /\ promises[c].state = "rejected" /\ promises[c].value = "E1"

\* C11: handling a frame removes no pending entry but the one of the frame's
\* id and adds none, leaves every other pending command's promise as it was,
\* and leaves the listener sets as they were; the listener sets change only in
\* an on() step.
C11_FrameTouchesOwnEntryOnly ==
    [][/\ Handled
          => /\ eventListeners' = eventListeners
             /\ DOMAIN pendingCommands' \subseteq DOMAIN pendingCommands
             /\ \A k \in DOMAIN pendingCommands :
                   k # event'.id
                   => /\ k \in DOMAIN pendingCommands'
                      /\ pendingCommands'[k] = pendingCommands[k]
                      /\ promises'[pendingCommands[k]] = promises[pendingCommands[k]]
                      /\ promises'[pendingCommands[k]].state = "pending"
       /\ eventListeners' # eventListeners
          => \E r \in Registrations : On(r[1], r[2])]_vars

\* C11 witness: with listeners registered, an error response for the first of
\* two commands was handled and the second is still pending in the table.
C11_Witness ==
    /\ Len(promises) = 2
    /\ promises[1].state = "rejected" /\ event.id = promises[1].id
    /\ promises[2].state = "pending"
    /\ promises[2].id \in DOMAIN pendingCommands
    /\ eventListeners["Page.loadEventFired"] # <<>>

\* C12: neither close() nor the socket's close settles a pending command or
\* changes the pending table, and once the socket is closed no promise of a
\* sent command and no pending entry ever changes.
C12_ClosePendingHang ==
    [][/\ (readyState' # readyState /\ readyState' \in {CLOSING, CLOSED})
          => /\ pendingCommands' = pendingCommands
             /\ promises' = promises
       /\ readyState = CLOSED
          => /\ pendingCommands' = pendingCommands
             /\ \A c \in 1..Len(promises) : promises'[c] = promises[c]]_vars

\* C12 witness: close() was called, the socket has closed, and a sent command
\* is still pending in the table.
C12_Witness ==
    /\ readyState = CLOSED
    /\ closeCallCount = 1
    /\ \E c \in Sent :
          promises[c].state = "pending" /\ promises[c].id \in DOMAIN pendingCommands

\* C13: ws.close() is requested at most once, only in a step taken while the
\* socket is open, and a close() call made while the socket is not open
\* changes nothing.
C13_CloseIdempotent ==
    /\ [](closeCallCount <= 1)
    /\ [][/\ closeCallCount' # closeCallCount
             => /\ readyState = OPEN
                /\ closeCallCount' = closeCallCount + 1
          /\ (Close /\ readyState # OPEN) => UNCHANGED vars]_vars

\* C13 witness: ws.close() was requested once and the socket is no longer
\* open, so that every further close() call finds it not open.
C13_Witness == closeCallCount = 1 /\ readyState \in {CLOSING, CLOSED}

\* C14: a listener set never holds a callback twice, an on() call for a
\* callback already in the set leaves the set as it was, and a frame delivered
\* to listeners invokes each registered callback exactly once.
C14_OnIdempotent ==
    /\ [](\A m \in EventMethods :
            Cardinality(Range(eventListeners[m])) = Len(eventListeners[m]))
    /\ [][/\ \A r \in Registrations :
                (On(r[1], r[2]) /\ r[2] \in Range(eventListeners[r[1]]))
                => eventListeners' = eventListeners
          /\ (Handled /\ event'.method \in EventMethods
                /\ event'.id \notin DOMAIN pendingCommands)
             => \A cb \in Range(eventListeners[event'.method]) :
                   Cardinality({i \in 1..Len(delivered') : delivered'[i][1] = cb}) = 1
         ]_vars

\* C14 witness: the only listener of a method was invoked once for a frame of
\* that method.
C14_Witness ==
    /\ event.id = NoId
    /\ event.method = "Page.loadEventFired"
    /\ eventListeners["Page.loadEventFired"] = <<"cbA">>
    /\ delivered = <<<<"cbA", event.params>>>>

\* C15: a frame that is not consumed by a pending command invokes the
\* listeners of its method, each once with the frame's params, in the order of
\* the listener set and no listener of another method; and on() only ever
\* appends to a set, so that order is the order of first registration.
C15_RegistrationOrder ==
    [][/\ (Handled /\ event'.method \in EventMethods
             /\ event'.id \notin DOMAIN pendingCommands)
          => /\ Len(delivered') = Len(eventListeners[event'.method])
             /\ \A i \in 1..Len(delivered') :
                   /\ delivered'[i][1] = eventListeners[event'.method][i]
                   /\ delivered'[i][2] = event'.params
             /\ \A m \in EventMethods \ {event'.method} :
                   \A i \in 1..Len(delivered') :
                      delivered'[i][1] \notin Range(eventListeners[m])
       /\ \A m \in EventMethods :
             /\ Len(eventListeners'[m]) >= Len(eventListeners[m])
             /\ \A i \in 1..Len(eventListeners[m]) :
                   eventListeners'[m][i] = eventListeners[m][i]]_vars

\* C15 witness: cbB was registered before cbA for one method and cbC for
\* another, and a frame of the first method invoked cbB, then cbA, not cbC.
C15_Witness ==
    /\ eventListeners["Page.loadEventFired"] = <<"cbB", "cbA">>
    /\ eventListeners["Network.requestWillBeSent"] = <<"cbC">>
    /\ event.method = "Page.loadEventFired"
    /\ delivered = <<<<"cbB", event.params>>, <<"cbA", event.params>>>>

\* A frame that matches no pending command and has no method field with
\* registered listeners.
Irrelevant(f) ==
    /\ f.id \notin DOMAIN pendingCommands
    /\ \/ f.method \notin EventMethods
       \/ eventListeners[f.method] = <<>>

\* C16: handling a frame that matches no pending command and has no method
\* field with registered listeners, malformed frames included, raises no
\* error, invokes no listener and leaves the pending table, the listener sets
\* and the id counter as they were.
C16_IrrelevantIgnored ==
    [][(Handled /\ Irrelevant(event'))
          => /\ threw' = FALSE
             /\ delivered' = <<>>
             /\ pendingCommands' = pendingCommands
             /\ promises' = promises
             /\ eventListeners' = eventListeners
             /\ messageId' = messageId]_vars

\* ------------------------------------------------- sendCommand's frames
\* The sessionId argument of sendCommand: left out, the empty string, or the
\* id of a session; and the methods of the commands.
SessionArgs == {Absent, "", "session-123", "session-456"}
SendMethods == {"Browser.getVersion", "Page.navigate"}

\* The client used only to send commands, with and without a session.
SendNext ==
    \/ WsOpen /\ Idle
    \/ WsClose /\ Idle
    \/ CreateClientResume /\ Idle
    \/ \E m \in SendMethods, s \in SessionArgs :
          SendCommand(m, "params", s) /\ Idle
    \/ Close /\ Idle

SendSpec == Init /\ [][SendNext]_vars

\* sendCommand was given a session id.
GivenSession(s) == s \notin {Absent, ""}

\* C17: the frame a sendCommand call hands to the socket has a sessionId field
\* exactly when the call was given a session id, and then with that value;
\* otherwise the frame has no such field, neither null nor empty.
C17_SessionIdOnlyWhenGiven ==
    [][\A m \in SendMethods, s \in SessionArgs :
          (SendCommand(m, "params", s) /\ Len(sentMessages') > Len(sentMessages))
          => LET sent == sentMessages'[Len(sentMessages')] IN
             /\ sent.method = m
             /\ GivenSession(s) => sent.sessionId = s
             /\ ~GivenSession(s) => sent.sessionId = Absent]_vars

\* C17 witness: a command sent with a session id went out with the field, and
\* one sent without went out with no such field.
C17_Witness ==
    /\ Len(sentMessages) = 2
    /\ sentMessages[1].sessionId = "session-123"
    /\ sentMessages[2].sessionId = Absent

\* ------------------------------------------------- launch, close(browser)
\* for (let i = 0; i < 20; i++): the queries retrieveWebSocketUrl makes at most.
MaxAttempts == 20

OperatingSystems == {"linux", "darwin", "windows"}

\* findExecutablePathCandidates
Candidates(o) ==
    IF o = "linux"
    THEN <<"google-chrome", "google-chrome-stable", "chromium-browser", "chromium">>
    ELSE IF o = "darwin"
    THEN <<"/Applications/Google Chrome.app/Contents/MacOS/Google Chrome">>
    ELSE <<>>

\* checkPath: the --version run of the path exits with code 0; a run that
\* cannot be started counts as failed.
CheckPath(path, ok) == path \in ok

NoBrowserError == "Could not find a compatible browser installed on this system"
NoEndpointError == "Failed to connect to the browser's debugger endpoint."
\* What a failed createClient throws: the socket's close event.
CloseEvent == "CloseEvent"

\* What a fetch of /json/version does: a response with ok, a response without,
\* or a thrown connection error.
FetchOutcomes == {"ok", "notOk", "throws"}

\* Deno.errors.NotFound and an error of another class thrown by process.kill.
NotFound == "NotFound"
OtherKillError == "unexpected kill error"

\* Mutant of Swallowed: every error of process.kill is swallowed.
SwallowedAny(error) == TRUE

\* The catch of close(browser): !(error instanceof Deno.errors.NotFound) rethrows.
Swallowed(error) == error = NotFound

\* What process.kill("SIGINT") can do: deliver the signal to a running process
\* or throw; the process of a launched browser may already be gone.
KillResults(status) ==
    IF status = "running" THEN {"ok", OtherKillError} ELSE {NotFound, OtherKillError}

\* A system with its operating system and installed browsers, no socket yet.
BrowserInit ==
    /\ ClientInit
    /\ createClientPc = "idle"
    /\ os \in OperatingSystems
    /\ passing \in SUBSET Range(Candidates(os))
    /\ BrowserIdle
    /\ GotoIdle
    /\ NewPageIdle

\* launch() is called: findChromeExecutable starts on the candidates.
Launch ==
    /\ launchPc = "idle"
    /\ IF Candidates(os) = <<>>
       THEN launchPc' = "failed" /\ launchError' = NoBrowserError
       ELSE launchPc' = "find" /\ UNCHANGED launchError
    /\ UNCHANGED <<os, passing, checked, chromePath, spawnCalls, fetchCalls,
                   processStatus, closePc, closeLog, killResult, closeError>>
    /\ UNCHANGED <<clientVars, gotoVars, newPageVars>>

\* Mutant of FindStep: when no candidate passes, the first one is used.
FindStepFallback ==
    /\ launchPc = "find"
    /\ LET path == Candidates(os)[Len(checked) + 1] IN
       /\ checked' = Append(checked, path)
       /\ IF CheckPath(path, passing)
          THEN launchPc' = "spawn" /\ chromePath' = path
          ELSE IF Len(checked') < Len(Candidates(os))
          THEN UNCHANGED <<launchPc, chromePath>>
          ELSE launchPc' = "spawn" /\ chromePath' = Candidates(os)[1]
    /\ UNCHANGED <<os, passing, spawnCalls, fetchCalls, launchError,
                   processStatus, closePc, closeLog, killResult, closeError>>
    /\ UNCHANGED <<clientVars, gotoVars, newPageVars>>

\* One turn of findChromeExecutable's loop: the version check of the next
\* candidate completes; the first that passes is returned, and the loop
\* running out throws.
FindStep ==
    /\ launchPc = "find"
    /\ LET path == Candidates(os)[Len(checked) + 1] IN
       /\ checked' = Append(checked, path)
       /\ IF CheckPath(path, passing)
          THEN launchPc' = "spawn" /\ chromePath' = path /\ UNCHANGED launchError
          ELSE IF Len(checked') < Len(Candidates(os))
          THEN UNCHANGED <<launchPc, chromePath, launchError>>
          ELSE /\ launchPc' = "failed"
               /\ launchError' = NoBrowserError
               /\ UNCHANGED chromePath
    /\ UNCHANGED <<os, passing, spawnCalls, fetchCalls,
                   processStatus, closePc, closeLog, killResult, closeError>>
    /\ UNCHANGED <<clientVars, gotoVars, newPageVars>>

\* const process = command.spawn(), then retrieveWebSocketUrl starts.
Spawn ==
    /\ launchPc = "spawn"
    /\ spawnCalls' = spawnCalls + 1
    /\ processStatus' = "running"
    /\ launchPc' = "retrieve"
    /\ UNCHANGED <<os, passing, checked, chromePath, fetchCalls, launchError,
                   closePc, closeLog, killResult, closeError>>
    /\ UNCHANGED <<clientVars, gotoVars, newPageVars>>

\* Mutant of Fetch: the loop has no limit, an unsuccessful fetch is always
\* followed by another.
FetchNoLimit(outcome) ==
    /\ launchPc = "retrieve"
    /\ fetchCalls' = fetchCalls + 1
    /\ IF outcome = "ok"
       THEN /\ launchPc' = "connect"
            /\ createClientPc' = "await"
       ELSE UNCHANGED <<launchPc, createClientPc>>
    /\ UNCHANGED <<os, passing, checked, chromePath, spawnCalls, launchError,
                   processStatus, closePc, closeLog, killResult, closeError>>
    /\ UNCHANGED <<readyState, connectionPromise, messageId, pendingCommands,
                   eventListeners, promises, sentMessages, closeCallCount,
                   event, delivered, threw>>
    /\ UNCHANGED <<gotoVars, newPageVars>>

\* One turn of retrieveWebSocketUrl's loop: a fetch; a response with ok
\* returns the url and createClient(url) constructs the socket; otherwise the
\* loop goes on after the delay, and running out throws.
Fetch(outcome) ==
    /\ launchPc = "retrieve"
    /\ fetchCalls' = fetchCalls + 1
    /\ IF outcome = "ok"
       THEN /\ launchPc' = "connect"
            /\ createClientPc' = "await"
            /\ UNCHANGED launchError
       ELSE IF fetchCalls' < MaxAttempts
       THEN UNCHANGED <<launchPc, createClientPc, launchError>>
       ELSE /\ launchPc' = "failed"
            /\ launchError' = NoEndpointError
            /\ UNCHANGED createClientPc
    /\ UNCHANGED <<os, passing, checked, chromePath, spawnCalls,
                   processStatus, closePc, closeLog, killResult, closeError>>
    /\ UNCHANGED <<readyState, connectionPromise, messageId, pendingCommands,
                   eventListeners, promises, sentMessages, closeCallCount,
                   event, delivered, threw>>
    /\ UNCHANGED <<gotoVars, newPageVars>>

\* const client = await createClient(webSocketUrl); return the browser.
LaunchResume ==
    /\ launchPc = "connect"
    /\ createClientPc \in {"returned", "rejected"}
    /\ IF createClientPc = "returned"
       THEN launchPc' = "returned" /\ UNCHANGED launchError
       ELSE launchPc' = "failed" /\ launchError' = CloseEvent
    /\ UNCHANGED <<os, passing, checked, chromePath, spawnCalls, fetchCalls,
                   processStatus, closePc, closeLog, killResult, closeError>>
    /\ UNCHANGED <<clientVars, gotoVars, newPageVars>>

\* The browser process exits, of itself or on the signal; its status resolves.
ProcessExit ==
    /\ processStatus = "running"
    /\ processStatus' = "exited"
    /\ UNCHANGED <<os, passing, launchPc, checked, chromePath, spawnCalls,
                   fetchCalls, launchError, closePc, closeLog, killResult,
                   closeError>>
    /\ UNCHANGED <<clientVars, gotoVars, newPageVars>>

\* close(browser) up to its await: browser.client.close(), then
\* process.kill("SIGINT") in the try; an error that is not swallowed is thrown.
BrowserClose(result) ==
    /\ launchPc = "returned"
    /\ closePc = "idle"
    /\ result \in KillResults(processStatus)
    /\ Close
    /\ closeLog' = <<"client.close", "process.kill SIGINT">>
    /\ killResult' = result
    /\ IF result = "ok" \/ Swallowed(result)
       THEN closePc' = "awaitStatus" /\ UNCHANGED closeError
       ELSE closePc' = "rejected" /\ closeError' = result
    /\ UNCHANGED <<os, passing, launchPc, checked, chromePath, spawnCalls,
                   fetchCalls, launchError, processStatus>>
    /\ UNCHANGED <<gotoVars, newPageVars>>

\* await browser.process.status
BrowserCloseResume ==
    /\ closePc = "awaitStatus"
    /\ processStatus = "exited"
    /\ closePc' = "returned"
    /\ UNCHANGED <<os, passing, launchPc, checked, chromePath, spawnCalls,
                   fetchCalls, launchError, processStatus, closeLog, killResult,
                   closeError>>
    /\ UNCHANGED <<clientVars, gotoVars, newPageVars>>

\* The socket's events reach the client once createClient has constructed it.
BrowserNext ==
    \/ Launch
    \/ FindStep
    \/ Spawn
    \/ \E o \in FetchOutcomes : Fetch(o)
    \/ createClientPc # "idle" /\ WsOpen /\ Idle
    \/ createClientPc # "idle" /\ WsClose /\ Idle
    \/ CreateClientResume /\ Idle
    \/ LaunchResume
    \/ ProcessExit
    \/ \E r \in {"ok", NotFound, OtherKillError} : BrowserClose(r)
    \/ BrowserCloseResume

BrowserSpec == BrowserInit /\ [][BrowserNext]_vars

\* No candidate of this system passes the version check.
NoCandidatePasses ==
    \A i \in 1..Len(Candidates(os)) : ~CheckPath(Candidates(os)[i], passing)

\* C19: close(browser) calls client.close() first and then sends SIGINT, so
\* the socket is no longer open; when kill throws NotFound the call does not
\* fail and returns once, and only once, the process status has resolved; when
\* kill throws any other error the call fails with that error, client.close()
\* having been called.
C19_BrowserCloseKillErrors ==
    /\ closePc # "idle"
       => /\ closeLog = <<"client.close", "process.kill SIGINT">>
          /\ readyState # OPEN
    /\ killResult = NotFound
       => /\ closePc \in {"awaitStatus", "returned"}
          /\ closeError = Absent
    /\ closePc = "returned" => processStatus = "exited"
    /\ (closePc = "awaitStatus" /\ processStatus = "exited")
       => ENABLED BrowserCloseResume
    /\ (killResult # Absent /\ killResult \notin {"ok", NotFound})
       => /\ closePc = "rejected"
          /\ closeError = killResult
          /\ closeLog[1] = "client.close"

\* C19 witness: kill threw NotFound and close(browser) has returned, the
\* process status resolved.
C19_Witness ==
    /\ killResult = NotFound
    /\ closePc = "returned"
    /\ closeCallCount = 1

\* C20: when no candidate passes the version check, launch does not get past
\* the search: it fails with the no-browser error once the candidates are
\* used up, and no browser process was spawned, no endpoint fetched and no
\* socket constructed.
C20_NoBrowserFailsEarly ==
    NoCandidatePasses
    => /\ launchPc \in {"idle", "find", "failed"}
       /\ launchPc = "failed" => launchError = NoBrowserError
       /\ (launchPc # "idle" /\ Len(checked) = Len(Candidates(os)))
          => launchPc = "failed"
       /\ spawnCalls = 0
       /\ fetchCalls = 0
       /\ processStatus = "none"
       /\ createClientPc = "idle"

\* C20 witness: on a system with four candidates every version check was run
\* and failed, and launch has failed with the no-browser error.
C20_Witness ==
    /\ Len(checked) = 4
    /\ launchPc = "failed"
    /\ launchError = NoBrowserError

\* ------------------------------------------------------------------ goto
\* const { timeout = 30000 } = options
DefaultTimeout == 30000

\* The options argument: timeout left out, zero, or a number of milliseconds.
GotoOptions == {[waitUntil |-> "load"], [timeout |-> 0], [timeout |-> 5000]}

\* const { timeout = 30000 } = options
Timeout(options) ==
    IF "timeout" \in DOMAIN options THEN options.timeout ELSE DefaultTimeout

\* if (timeout > 0) timeoutId = setTimeout(...)
StartsTimer(t) == t > 0

\* The rejection of the timer: Error(`Navigation timeout of ${timeout} ms exceeded`).
TimeoutError == "Navigation timeout exceeded"

\* page.sessionId, and the onPageLoad closure of the goto call on the page.
PageSession(p) == IF p = "pageA" THEN "session-A" ELSE "session-B"
OnPageLoad(p) == IF p = "pageA" THEN "onPageLoad of pageA" ELSE "onPageLoad of pageB"

\* goto(page, url, options) up to its first await: the executor of
\* navigationPromise starts the timer and registers onPageLoad, then
\* sendCommand("Page.navigate", { url }, page.sessionId) is called.
GotoCall(p, options) ==
    /\ createClientPc = "returned"
    /\ gotoPc[p] = "idle"
    /\ Len(promises) < MaxCalls
    /\ gotoTimeout' = [gotoTimeout EXCEPT ![p] = Timeout(options)]
    /\ timer' = [timer EXCEPT ![p] =
                    IF StartsTimer(Timeout(options)) THEN "armed" ELSE "none"]
    /\ eventListeners' = [eventListeners EXCEPT !["Page.loadEventFired"] =
                             SetAdd(@, OnPageLoad(p))]
    /\ IF NotOpen(readyState)
       THEN /\ promises' = Append(promises,
                   [id |-> 0, state |-> "rejected", value |-> NotOpenError])
            /\ UNCHANGED <<messageId, pendingCommands, sentMessages>>
       ELSE LET id == AllocId(messageId).id IN
            /\ messageId' = AllocId(messageId).messageId
            /\ promises' = Append(promises,
                   [id |-> id, state |-> "pending", value |-> Absent])
            /\ pendingCommands' = MapSet(pendingCommands, id, Len(promises) + 1)
            /\ sentMessages' = Append(sentMessages,
                   Message(id, "Page.navigate", "url", PageSession(p)))
    /\ gotoCommand' = [gotoCommand EXCEPT ![p] = Len(promises) + 1]
    /\ gotoPc' = [gotoPc EXCEPT ![p] = "awaitCommand"]
    /\ UNCHANGED <<readyState, connectionPromise, createClientPc,
                   closeCallCount, event, delivered, threw>>
    /\ UNCHANGED <<navigationPromise, gotoError, unhandled, browserVars,
                   newPageVars>>

\* await page.client.sendCommand(...): the call goes on once the command has
\* completed, and fails with the command's error if it failed.
GotoCommandSettled(p) ==
    /\ gotoPc[p] = "awaitCommand"
    /\ promises[gotoCommand[p]].state # "pending"
    /\ IF promises[gotoCommand[p]].state = "resolved"
       THEN /\ gotoPc' = [gotoPc EXCEPT ![p] = "awaitNavigation"]
            /\ UNCHANGED gotoError
       ELSE /\ gotoPc' = [gotoPc EXCEPT ![p] = "rejected"]
            /\ gotoError' = [gotoError EXCEPT ![p] = promises[gotoCommand[p]].value]
    /\ UNCHANGED <<gotoTimeout, timer, navigationPromise, gotoCommand, unhandled>>
    /\ UNCHANGED <<clientVars, browserVars, newPageVars>>

\* await navigationPromise
GotoNavigationSettled(p) ==
    /\ gotoPc[p] = "awaitNavigation"
    /\ navigationPromise[p] # "pending"
    /\ IF navigationPromise[p] = "resolved"
       THEN /\ gotoPc' = [gotoPc EXCEPT ![p] = "resolved"]
            /\ UNCHANGED gotoError
       ELSE /\ gotoPc' = [gotoPc EXCEPT ![p] = "rejected"]
            /\ gotoError' = [gotoError EXCEPT ![p] = TimeoutError]
    /\ UNCHANGED <<gotoTimeout, timer, navigationPromise, gotoCommand, unhandled>>
    /\ UNCHANGED <<clientVars, browserVars, newPageVars>>

\* The timer of the call fires: reject(new Error(...)). The rejection has a
\* handler only if the call is already at await navigationPromise.
TimerFires(p) ==
    /\ timer[p] = "armed"
    /\ timer' = [timer EXCEPT ![p] = "fired"]
    /\ navigationPromise' = [navigationPromise EXCEPT ![p] =
                                SettleConnection(@, "rejected")]
    /\ unhandled' = [unhandled EXCEPT ![p] = gotoPc[p] # "awaitNavigation"]
    /\ UNCHANGED <<gotoPc, gotoTimeout, gotoCommand, gotoError>>
    /\ UNCHANGED <<clientVars, browserVars, newPageVars>>

\* A frame of a session: the object also has a sessionId field.
WithSession(f, session) ==
    [k \in DOMAIN f \cup {"sessionId"} |-> IF k = "sessionId" THEN session ELSE f[k]]

\* The frames a browser sends during a navigation: the reply to a command,
\* with a result or with an error, and the load event, without a session and
\* of each page's session.
GotoFrames ==
    {Frame(i, Absent, Absent, "R1", Absent) : i \in 1..MaxCalls}
    \cup {Frame(i, Absent, Absent, Absent, "E1") : i \in 1..MaxCalls}
    \cup {Frame(NoId, "Page.loadEventFired", "P1", Absent, Absent)}
    \cup {WithSession(Frame(NoId, "Page.loadEventFired", "P1", Absent, Absent),
                      PageSession(p)) : p \in Pages}

\* The pages whose onPageLoad the listener invocations contain.
Loaded(invocations) ==
    {p \in Pages : \E i \in 1..Len(invocations) : invocations[i][1] = OnPageLoad(p)}

\* Mutant of GotoOnMessage: a load event counts only for a call that is
\* already at await navigationPromise.
GotoOnMessageAfterReply(f) ==
    /\ OnMessage(f)
    /\ timer' = [p \in Pages |->
                    IF p \in Loaded(delivered') /\ gotoPc[p] = "awaitNavigation"
                       /\ timer[p] = "armed"
                    THEN "cleared" ELSE timer[p]]
    /\ navigationPromise' = [p \in Pages |->
                    IF p \in Loaded(delivered') /\ gotoPc[p] = "awaitNavigation"
                    THEN SettleConnection(navigationPromise[p], "resolved")
                    ELSE navigationPromise[p]]
    /\ UNCHANGED <<gotoPc, gotoTimeout, gotoCommand, gotoError, unhandled>>
    /\ UNCHANGED <<browserVars, newPageVars>>

\* Mutant of GotoOnMessage: a load event of a session counts only for the
\* call on the page of that session.
GotoOnMessageOwnSession(f) ==
    /\ OnMessage(f)
    /\ LET own == {p \in Loaded(delivered') :
                      "sessionId" \notin DOMAIN f \/ f.sessionId = PageSession(p)}
       IN  /\ timer' = [p \in Pages |->
                           IF p \in own /\ timer[p] = "armed"
                           THEN "cleared" ELSE timer[p]]
           /\ navigationPromise' = [p \in Pages |->
                           IF p \in own
                           THEN SettleConnection(navigationPromise[p], "resolved")
                           ELSE navigationPromise[p]]
    /\ UNCHANGED <<gotoPc, gotoTimeout, gotoCommand, gotoError, unhandled>>
    /\ UNCHANGED <<browserVars, newPageVars>>

\* ws.onmessage with the goto calls' listeners: onPageLoad is
\* clearTimeout(timeoutId); resolve().
GotoOnMessage(f) ==
    /\ OnMessage(f)
    /\ timer' = [p \in Pages |->
                    IF p \in Loaded(delivered') /\ timer[p] = "armed"
                    THEN "cleared" ELSE timer[p]]
    /\ navigationPromise' = [p \in Pages |->
                    IF p \in Loaded(delivered')
                    THEN SettleConnection(navigationPromise[p], "resolved")
                    ELSE navigationPromise[p]]
    /\ UNCHANGED <<gotoPc, gotoTimeout, gotoCommand, gotoError, unhandled>>
    /\ UNCHANGED <<browserVars, newPageVars>>

GotoNext ==
    \/ WsOpen /\ Idle
    \/ WsClose /\ Idle
    \/ CreateClientResume /\ Idle
    \/ \E p \in Pages, o \in GotoOptions : GotoCall(p, o)
    \/ \E p \in Pages : GotoCommandSettled(p)
    \/ \E p \in Pages : GotoNavigationSettled(p)
    \/ \E p \in Pages : TimerFires(p)
    \/ \E f \in GotoFrames : GotoOnMessage(f)

GotoSpec == Init /\ [][GotoNext]_vars

\* C18: once the timer of a goto call has fired, the call has failed with the
\* navigation-timeout error or is at the wait that fails with it next, whether
\* or not the reply to Page.navigate has arrived; and a call with timeout 0
\* has no timer and does not fail with the navigation-timeout error.
C18_TimeoutBoundsNavigation ==
    \A p \in Pages :
       /\ timer[p] = "fired"
          => \/ gotoPc[p] = "rejected" /\ gotoError[p] = TimeoutError
             \/ gotoPc[p] = "awaitNavigation"
       /\ gotoTimeout[p] = 0
          => timer[p] = "none" /\ gotoError[p] # TimeoutError

\* C18 case: the timer fired while the call was waiting for the reply to
\* Page.navigate, which is still outstanding, and the call is pending.
C18_PendingAfterTimeout ==
    \E p \in Pages :
       /\ timer[p] = "fired"
       /\ gotoPc[p] = "awaitCommand"
       /\ promises[gotoCommand[p]].state = "pending"
       /\ unhandled[p]

\* ------------------------------------------- a reply inside ws.send
\* Mutant of SendCommandReplied: the pending entry is registered after
\* ws.send has returned.
SendCommandRepliedLate(method, params, sessionId, text) ==
    /\ createClientPc = "returned"
    /\ Len(promises) < MaxCalls
    /\ ~NotOpen(readyState)
    /\ Parses(text)
    /\ LET id == AllocId(messageId).id
           promisesAtSend == Append(promises,
                                 [id |-> id, state |-> "pending", value |-> Absent])
       IN  /\ messageId' = AllocId(messageId).messageId
           /\ sentMessages' =
                  Append(sentMessages, Message(id, method, params, sessionId))
           /\ event' = text
           /\ threw' = FALSE
           /\ IF HasPendingCommand(text, pendingCommands)
              THEN LET r == Resolvers(pendingCommands, text.id)
                       o == Outcome(text)
                   IN  /\ pendingCommands' =
                              MapSet(MapDelete(pendingCommands, text.id),
                                     id, Len(promises) + 1)
                       /\ promises' = [promisesAtSend EXCEPT
                              ![r] = SettlePromise(@, o.state, o.value)]
                       /\ delivered' = Routed(TRUE, text, eventListeners)
              ELSE /\ pendingCommands' =
                          MapSet(pendingCommands, id, Len(promises) + 1)
                   /\ promises' = promisesAtSend
                   /\ delivered' = Routed(FALSE, text, eventListeners)
    /\ UNCHANGED <<readyState, connectionPromise, createClientPc, eventListeners,
                   closeCallCount>>

\* sendCommand on a socket that delivers a frame to ws.onmessage while
\* ws.send runs: the promise executor has registered the pending entry, then
\* ws.send is called and the handler runs on the table as it is by then.
SendCommandReplied(method, params, sessionId, text) ==
    /\ createClientPc = "returned"
    /\ Len(promises) < MaxCalls
    /\ ~NotOpen(readyState)
    /\ Parses(text)
    /\ LET id == AllocId(messageId).id
           pendingAtSend == MapSet(pendingCommands, id, Len(promises) + 1)
           promisesAtSend == Append(promises,
                                 [id |-> id, state |-> "pending", value |-> Absent])
       IN  /\ messageId' = AllocId(messageId).messageId
           /\ sentMessages' =
                  Append(sentMessages, Message(id, method, params, sessionId))
           /\ event' = text
           /\ threw' = FALSE
           /\ IF HasPendingCommand(text, pendingAtSend)
              THEN LET r == Resolvers(pendingAtSend, text.id)
                       o == Outcome(text)
                   IN  /\ pendingCommands' = MapDelete(pendingAtSend, text.id)
                       /\ promises' = [promisesAtSend EXCEPT
                              ![r] = SettlePromise(@, o.state, o.value)]
                       /\ delivered' = Routed(TRUE, text, eventListeners)
              ELSE /\ pendingCommands' = pendingAtSend
                   /\ promises' = promisesAtSend
                   /\ delivered' = Routed(FALSE, text, eventListeners)
    /\ UNCHANGED <<readyState, connectionPromise, createClientPc, eventListeners,
                   closeCallCount>>

\* The client with replies that arrive after the send or during it.
ReplyNext ==
    \/ WsOpen /\ Idle
    \/ WsClose /\ Idle
    \/ CreateClientResume /\ Idle
    \/ \E m \in CommandMethods, s \in SessionIds :
          SendCommand(m, "params", s) /\ Idle
    \/ \E m \in CommandMethods, s \in SessionIds, f \in GotoFrames :
          SendCommandReplied(m, "params", s, f) /\ Idle
    \/ \E r \in Registrations : On(r[1], r[2]) /\ Idle
    \/ \E f \in GotoFrames : OnMessage(f) /\ Idle

ReplySpec == Init /\ [][ReplyNext]_vars

\* C21: every sent command that is still pending has its entry in the table,
\* so a frame with its id that is handled later settles it; and a frame with
\* the new command's id that is delivered while ws.send runs finds the entry
\* too: the command is settled with the frame's outcome, its entry removed and
\* no listener invoked.
C21_RegisteredBeforeSend ==
    /\ [](\A c \in Sent :
            promises[c].state = "pending"
            => /\ promises[c].id \in DOMAIN pendingCommands
               /\ pendingCommands[promises[c].id] = c)
    /\ [][/\ \A c \in Sent :
                (Handled /\ promises[c].state = "pending"
                   /\ event'.id = promises[c].id)
                => promises'[c].state # "pending"
          /\ \A m \in CommandMethods, s \in SessionIds, f \in GotoFrames :
                (SendCommandReplied(m, "params", s, f)
                   /\ f.id = AllocId(messageId).id)
                => /\ promises'[Len(promises')].id = f.id
                   /\ promises'[Len(promises')].state = Outcome(f).state
                   /\ promises'[Len(promises')].value = Outcome(f).value
                   /\ f.id \notin DOMAIN pendingCommands'
                   /\ delivered' = <<>>]_vars

\* C21 witness: the second command was answered while its ws.send ran: it is
\* resolved with the frame's result, the first is still pending.
C21_Witness ==
    /\ Len(promises) = 2 /\ Len(sentMessages) = 2
    /\ promises[1].state = "pending"
    /\ promises[2].id = 2 /\ promises[2].state = "resolved"
    /\ event.id = 2
    /\ DOMAIN pendingCommands = {1}
    /\ messageId = 2

\* This step handles a Page.loadEventFired frame that no pending command
\* consumes.
LoadEventHandled ==
    /\ event' \in GotoFrames
    /\ OnMessage(event')
    /\ event'.method = "Page.loadEventFired"
    /\ event'.id \notin DOMAIN pendingCommands

\* C22: from the call on, and so from the send of Page.navigate on, the
\* call's onPageLoad is a listener of Page.loadEventFired; a load event
\* handled after the call satisfies the load wait, before or after the reply,
\* and the wait stays satisfied; the call has completed only if its
\* Page.navigate command was resolved by its reply and the load wait is
\* satisfied; and, the timer not having fired, once both hold the call has
\* completed or its continuation is ready to run.
C22_GotoReplyAndLoad ==
    /\ [](\A p \in Pages :
            /\ gotoPc[p] # "idle"
               => OnPageLoad(p) \in Range(eventListeners["Page.loadEventFired"])
            /\ gotoPc[p] = "resolved"
               => /\ promises[gotoCommand[p]].state = "resolved"
                  /\ navigationPromise[p] = "resolved"
            /\ (gotoPc[p] # "idle" /\ timer[p] # "fired"
                  /\ promises[gotoCommand[p]].state = "resolved"
                  /\ navigationPromise[p] = "resolved")
               => \/ gotoPc[p] = "resolved"
                  \/ ENABLED GotoCommandSettled(p)
                  \/ ENABLED GotoNavigationSettled(p))
    /\ [][\A p \in Pages :
             /\ (LoadEventHandled /\ gotoPc[p] # "idle"
                   /\ navigationPromise[p] = "pending")
                => navigationPromise'[p] = "resolved"
             /\ navigationPromise[p] = "resolved"
                => navigationPromise'[p] = "resolved"
             /\ (gotoPc[p] = "idle" /\ Len(sentMessages') > Len(sentMessages))
                => OnPageLoad(p) \in Range(eventListeners'["Page.loadEventFired"])
                   \/ gotoPc'[p] = "idle"]_vars

\* C22 witness: the call on pageA has completed and the frame handled last
\* was the reply to its Page.navigate, so its load event came before the
\* reply.
C22_Witness ==
    /\ gotoPc["pageA"] = "resolved"
    /\ event.id = promises[gotoCommand["pageA"]].id
    /\ timer["pageA"] = "cleared"
    /\ gotoPc["pageB"] = "idle"

\* --------------------------------------------------------------- newPage
\* The commands one newPage call issues.
NewPageCommands == 3

\* Result payloads of the replies: what Target.createTarget and
\* Target.attachToTarget return, and an object with neither field.
CreateTargetResult == "{ targetId: T1 }"
AttachToTargetResult == "{ sessionId: S1 }"
EmptyResult == "{}"

\* const { targetId } = result and const { sessionId } = result: the field's
\* value, undefined when the object lacks it.
TargetIdOf(result) == IF result = CreateTargetResult THEN "T1" ELSE Absent
SessionIdOf(result) == IF result = AttachToTargetResult THEN "S1" ELSE Absent

\* Destructuring undefined throws.
DestructureError == "TypeError"

\* The params of the three commands as JSON.stringify writes them: a field
\* whose value is undefined is left out.
CreateTargetParams == "{ url: about:blank }"
AttachToTargetParams(id) ==
    IF id = Absent THEN "{ flatten: true }" ELSE "{ targetId: T1, flatten: true }"
EnableParams == "{}"

\* Mutant of Proceeds: the call goes on whatever the command's outcome.
ProceedsAlways(promise) == TRUE

\* await sendCommand(...) returns the result of a resolved command and throws
\* the error of a rejected one.
Proceeds(promise) == promise.state = "resolved"

\* client.sendCommand(method, params, sessionId) as a callee: the effect of
\* the call on the client.
Send(method, params, sessionId) ==
    /\ IF NotOpen(readyState)
       THEN /\ promises' = Append(promises,
                   [id |-> 0, state |-> "rejected", value |-> NotOpenError])
            /\ UNCHANGED <<messageId, pendingCommands, sentMessages>>
       ELSE LET id == AllocId(messageId).id IN
            /\ messageId' = AllocId(messageId).messageId
            /\ promises' = Append(promises,
                   [id |-> id, state |-> "pending", value |-> Absent])
            /\ pendingCommands' = MapSet(pendingCommands, id, Len(promises) + 1)
            /\ sentMessages' =
                   Append(sentMessages, Message(id, method, params, sessionId))
    /\ UNCHANGED <<readyState, connectionPromise, createClientPc, eventListeners,
                   closeCallCount, event, delivered, threw>>

\* newPage(browser) up to its first await.
NewPageCall ==
    /\ createClientPc = "returned"
    /\ newPagePc = "idle"
    /\ Send("Target.createTarget", CreateTargetParams, Absent)
    /\ newPagePc' = "createTarget"
    /\ newPageCommand' = Len(promises) + 1
    /\ UNCHANGED <<targetId, pageSessionId, newPageError>>
    /\ UNCHANGED <<browserVars, gotoVars>>

\* The continuation of newPage after the command it awaits has settled.
NewPageResume ==
    /\ newPagePc \in {"createTarget", "attachToTarget", "enable"}
    /\ promises[newPageCommand].state # "pending"
    /\ LET awaited == promises[newPageCommand] IN
       IF ~Proceeds(awaited)
       THEN /\ newPagePc' = "rejected"
            /\ newPageError' = awaited.value
            /\ UNCHANGED <<clientVars, newPageCommand, targetId, pageSessionId>>
       ELSE IF newPagePc = "enable"
       THEN /\ newPagePc' = "returned"
            /\ UNCHANGED <<clientVars, newPageCommand, targetId, pageSessionId,
                           newPageError>>
       ELSE IF awaited.value = Absent
       THEN /\ newPagePc' = "rejected"
            /\ newPageError' = DestructureError
            /\ UNCHANGED <<clientVars, newPageCommand, targetId, pageSessionId>>
       ELSE IF newPagePc = "createTarget"
       THEN /\ targetId' = TargetIdOf(awaited.value)
            /\ Send("Target.attachToTarget", AttachToTargetParams(targetId'), Absent)
            /\ newPagePc' = "attachToTarget"
            /\ newPageCommand' = Len(promises) + 1
            /\ UNCHANGED <<pageSessionId, newPageError>>
       ELSE /\ pageSessionId' = SessionIdOf(awaited.value)
            /\ Send("Page.enable", EnableParams, pageSessionId')
            /\ newPagePc' = "enable"
            /\ newPageCommand' = Len(promises) + 1
            /\ UNCHANGED <<targetId, newPageError>>
    /\ UNCHANGED <<browserVars, gotoVars>>

\* The replies a browser sends to the commands: a result payload, an error,
\* or neither.
NewPageFrames ==
    {Frame(i, Absent, Absent, r, Absent) :
        i \in 1..NewPageCommands,
        r \in {CreateTargetResult, AttachToTargetResult, EmptyResult, Absent}}
    \cup {Frame(i, Absent, Absent, Absent, "E1") : i \in 1..NewPageCommands}

NewPageNext ==
    \/ WsOpen /\ Idle
    \/ WsClose /\ Idle
    \/ CreateClientResume /\ Idle
    \/ NewPageCall
    \/ NewPageResume
    \/ \E f \in NewPageFrames : OnMessage(f) /\ Idle

NewPageSpec == Init /\ [][NewPageNext]_vars

\* The methods of newPage's commands, in the order of the claim.
NewPageMethods == <<"Target.createTarget", "Target.attachToTarget", "Page.enable">>

\* C23: the frames newPage sends are, in this order, Target.createTarget,
\* Target.attachToTarget with the targetId of the first reply's result, and
\* Page.enable with the sessionId of the second reply's result; a command is
\* sent only when the one before it has been resolved by its reply; and when a
\* command has failed no further command is issued and the call, once its
\* continuation has run, has failed with that command's error.
C23_NewPageSequence ==
    /\ Len(sentMessages) <= NewPageCommands
    /\ \A k \in 1..Len(sentMessages) :
          /\ sentMessages[k].id = k
          /\ sentMessages[k].method = NewPageMethods[k]
          /\ promises[k].id = k
          /\ k > 1 => promises[k - 1].state = "resolved"
    /\ Len(sentMessages) >= 2
       => sentMessages[2].params = AttachToTargetParams(TargetIdOf(promises[1].value))
    /\ Len(sentMessages) >= 3
       => sentMessages[3].sessionId = SessionIdOf(promises[2].value)
    /\ \A k \in 1..Len(promises) :
          promises[k].state = "rejected"
          => /\ Len(promises) = k
             /\ newPagePc # "returned"
             /\ newPagePc = "rejected" \/ newPageCommand = k
             /\ newPagePc = "rejected" => newPageError = promises[k].value

\* C23 witness: the three commands were sent and answered, the second with
\* the target's id and the third with the session's id, and newPage returned.
C23_Witness ==
    /\ newPagePc = "returned"
    /\ Len(sentMessages) = 3
    /\ targetId = "T1"
    /\ sentMessages[2].params = "{ targetId: T1, flatten: true }"
    /\ pageSessionId = "S1"
    /\ sentMessages[3].sessionId = "S1"

\* C24: the version endpoint is queried at most 20 times, one query per turn
\* of the loop and only while retrieveWebSocketUrl is running; the query that
\* succeeds ends the loop with the url, with which the client is created, and
\* no query follows; after the 20th unsuccessful query the loop is over and
\* launch has failed with the endpoint error, no socket constructed.
C24_BoundedRetries ==
    /\ [](/\ fetchCalls <= 20
          /\ launchPc = "retrieve" => fetchCalls < 20
          /\ launchError = NoEndpointError
             => /\ fetchCalls = 20
                /\ launchPc = "failed"
                /\ createClientPc = "idle")
    /\ [][/\ fetchCalls' # fetchCalls
             => /\ launchPc = "retrieve"
                /\ fetchCalls' = fetchCalls + 1
                /\ launchPc' \in {"retrieve", "connect", "failed"}
                /\ launchPc' = "failed"
                   => fetchCalls' = 20 /\ launchError' = NoEndpointError
          /\ Fetch("ok") => launchPc' = "connect" /\ createClientPc' = "await"
          /\ \A o \in FetchOutcomes \ {"ok"} :
                (Fetch(o) /\ fetchCalls' < 20) => launchPc' = "retrieve"
          /\ launchPc \in {"connect", "returned", "failed"}
             => fetchCalls' = fetchCalls]_vars

\* C24 witness: twenty queries were made, none succeeded, and launch has
\* failed with the endpoint error.
C24_Witness ==
    /\ fetchCalls = 20
    /\ launchError = NoEndpointError
    /\ spawnCalls = 1

\* C25: the ids in the pending table are exactly the allocated ids
\* 1..messageId whose command has not been settled by a matching frame; every
\* allocated id is the id of one command and of exactly one frame handed to
\* the socket; and no pending id is outside 1..messageId.
C25_PendingIsAllocatedMinusAnswered ==
    /\ \A k \in 1..messageId :
          /\ PromiseOf(k) # 0
          /\ Cardinality({c \in 1..Len(promises) : promises[c].id = k}) = 1
          /\ Cardinality({i \in 1..Len(sentMessages) : sentMessages[i].id = k}) = 1
    /\ DOMAIN pendingCommands =
          {k \in 1..messageId : promises[PromiseOf(k)].state = "pending"}
    /\ \A k \in DOMAIN pendingCommands : 1 <= k /\ k <= messageId
    /\ \A i \in 1..Len(sentMessages) : sentMessages[i].id \in 1..messageId

\* C25 witness: one id was allocated and is pending, and a second call, made
\* with the socket no longer open, allocated none.
C25_Witness ==
    /\ messageId = 1
    /\ Len(promises) = 2
    /\ promises[2].id = 0
    /\ DOMAIN pendingCommands = {1}
    /\ Len(sentMessages) = 1

\* C26: the load wait of a goto call never changes once it is settled, and
\* neither does the call's outcome; when the listener has run first the timer
\* is cleared, stays cleared and has not fired; when the timer has fired first
\* the wait is rejected, and a load event handled later still invokes the
\* call's listener, which is never removed, and leaves the rejection and the
\* fired timer as they are.
C26_LoadWaitSettlesOnce ==
    /\ [](\A p \in Pages :
            /\ navigationPromise[p] = "resolved" => timer[p] \in {"none", "cleared"}
            /\ timer[p] = "fired" => navigationPromise[p] = "rejected"
            /\ timer[p] = "cleared" => navigationPromise[p] = "resolved")
    /\ [][\A p \in Pages :
             /\ navigationPromise[p] # "pending"
                => navigationPromise'[p] = navigationPromise[p]
             /\ timer[p] \in {"cleared", "fired"} => timer'[p] = timer[p]
             /\ gotoPc[p] \in {"resolved", "rejected"}
                => gotoPc'[p] = gotoPc[p] /\ gotoError'[p] = gotoError[p]
             /\ OnPageLoad(p) \in Range(eventListeners["Page.loadEventFired"])
                => OnPageLoad(p) \in Range(eventListeners'["Page.loadEventFired"])
             /\ (LoadEventHandled /\ gotoPc[p] # "idle")
                => \E i \in 1..Len(delivered') : delivered'[i][1] = OnPageLoad(p)]_vars

\* C26 witness: the timer of the call on pageA fired, the call failed with the
\* timeout error, and the frame handled last is a load event that invoked the
\* call's listener.
C26_Witness ==
    /\ timer["pageA"] = "fired"
    /\ gotoPc["pageA"] = "rejected"
    /\ gotoError["pageA"] = TimeoutError
    /\ navigationPromise["pageA"] = "rejected"
    /\ event.method = "Page.loadEventFired"
    /\ \E i \in 1..Len(delivered) : delivered[i][1] = OnPageLoad("pageA")

\* C27: a Page.loadEventFired frame that no pending command consumes,
\* whatever session it names or none, invokes the onPageLoad of every goto
\* call made so far on the client, on either page, and leaves no such call's
\* load wait pending: a wait that was pending is satisfied by it.
C27_ListenersByMethodOnly ==
    [][(/\ event' \in GotoFrames
        /\ OnMessage(event')
        /\ event'.method = "Page.loadEventFired"
        /\ event'.id \notin DOMAIN pendingCommands)
       => \A p \in Pages :
             gotoPc[p] # "idle"
             => /\ \E i \in 1..Len(delivered') : delivered'[i][1] = OnPageLoad(p)
                /\ navigationPromise[p] = "pending"
                   => navigationPromise'[p] = "resolved"
                /\ navigationPromise'[p] # "pending"]_vars

\* C27 witness: goto calls are outstanding on both pages, and one load event
\* of pageA's session has invoked both listeners and satisfied both waits.
C27_Witness ==
    /\ "sessionId" \in DOMAIN event
    /\ event.sessionId = PageSession("pageA")
    /\ delivered = <<<<OnPageLoad("pageB"), "P1">>, <<OnPageLoad("pageA"), "P1">>>>
    /\ \A p \in Pages :
          /\ gotoPc[p] = "awaitCommand"
          /\ navigationPromise[p] = "resolved"
          /\ timer[p] = "cleared"

====
